---- MODULE Spec2Model ----
(***************************************************************************)
(* Graph.js: a directed graph kept as a modified incidence list.  Every    *)
(* node object owns an out-edge map and an in-edge map keyed by the        *)
(* neighbour's id and a cached _edgeCount; removeNode() only drops the     *)
(* node object and getEdge() cleans the entries it left behind in its      *)
(* neighbours.                                                             *)
(*                                                                         *)
(* Objects are records.  An edge object carries an oid, its identity on    *)
(* the JavaScript heap, so that `===` on edges is equality of records.     *)
(* A live node object is stored under its own id and nowhere else, so      *)
(* `fromNode !== toNode` is fromId # toId.                                 *)
(***************************************************************************)
EXTENDS Integers, Sequences, FiniteSets, TLC

\* The node ids the callers use: one id type, as addNode's comment asks, and
\* ordinary names, none of them a property every object inherits (such as
\* "constructor"), so that this._nodes[id] only finds what addNode stored.
Ids == {"A", "B"}

\* Edge objects the callers may create in one run (bounds nextOid).
MaxEdgeObjects == 2

\* The explicit weight a caller passes when it passes one.
GivenWeight == 2

\* JavaScript's undefined: a missing property, a missing return value.
Undefined == [undefined |-> TRUE]

\* {} : a map with no own property.
EmptyMap == [k \in Ids |-> Undefined]

VARIABLES
    nodes,      \* this._nodes: id -> node object, Undefined when no property
    nodeSize,   \* this.nodeSize
    edgeSize,   \* this.edgeSize
    nextOid,    \* identity of the next edge object the heap hands out
    call,       \* the last call made on the graph: [op, args]
    ret         \* what that call returned

vars == <<nodes, nodeSize, edgeSize, nextOid, call, ret>>

\* new Graph
Init ==
    /\ nodes = [i \in Ids |-> Undefined]
    /\ nodeSize = 0
    /\ edgeSize = 0
    /\ nextOid = 1
    /\ call = [op |-> "new", args |-> <<>>]
    /\ ret = Undefined

\* The node object literal of addNode.
NewNode(id) ==
    [id |-> id, outEdges |-> EmptyMap, inEdges |-> EmptyMap, edgeCount |-> 0]

\* The edge object literal with _fromId and _toId exchanged (mutant of
\* NewEdge).
NewEdgeSwapped(fromId, toId, weight, oid) ==
    [fromId |-> toId, toId |-> fromId, weight |-> weight, oid |-> oid]

\* The edge object literal of addEdge, allocated as object number oid.
NewEdge(fromId, toId, weight, oid) ==
    [fromId |-> fromId, toId |-> toId, weight |-> weight, oid |-> oid]

\* `weight == null` replaces an omitted third argument by 1.
WeightOf(args) == IF Len(args) < 3 THEN 1 ELSE args[3]

\* The own keys of a map, as for-in enumerates them.
Keys(map) == {k \in Ids : map[k] # Undefined}

\* The orders in which for-in may enumerate a key set.
Orders(S) ==
    {s \in [1..Cardinality(S) -> S] : \A i, j \in 1..Cardinality(S) : s[i] = s[j] => i = j}

\* getEdge that reports a leftover entry as absent without deleting it
\* (mutant of getEdge).
getEdgeNotCleaning(ns, fromId, toId) ==
    LET fromNode == ns[fromId]
        toNode == ns[toId]
    IN  IF fromNode = Undefined \/ toNode = Undefined
        THEN [nodes |-> ns, ret |-> Undefined]
        ELSE IF fromNode.outEdges[toId] = Undefined \/ toNode.inEdges[fromId] = Undefined
        THEN [nodes |-> ns, ret |-> Undefined]
        ELSE [nodes |-> ns, ret |-> fromNode.outEdges[toId]]

\* getEdge without the both-nodes-live consistency check: it trusts the
\* out-map of fromNode (mutant of getEdge).
getEdgeTrustingOutMap(ns, fromId, toId) ==
    LET fromNode == ns[fromId]
        toNode == ns[toId]
    IN  IF fromNode = Undefined /\ toNode = Undefined
        THEN [nodes |-> ns, ret |-> Undefined]
        ELSE IF fromNode = Undefined
        THEN [nodes |-> [ns EXCEPT ![toId].inEdges[fromId] = Undefined], ret |-> Undefined]
        ELSE IF toNode = Undefined
        THEN [nodes |-> [ns EXCEPT ![fromId].outEdges[toId] = Undefined], ret |-> Undefined]
        ELSE [nodes |-> ns, ret |-> fromNode.outEdges[toId]]

\* getEdge that hands out the entry a removed node left behind in its
\* neighbour instead of deleting it (mutant of getEdge).
getEdgeReturningGhost(ns, fromId, toId) ==
    LET fromNode == ns[fromId]
        toNode == ns[toId]
    IN  IF fromNode = Undefined /\ toNode = Undefined
        THEN [nodes |-> ns, ret |-> Undefined]
        ELSE IF fromNode = Undefined
        THEN [nodes |-> ns, ret |-> toNode.inEdges[fromId]]
        ELSE IF toNode = Undefined
        THEN [nodes |-> ns, ret |-> fromNode.outEdges[toId]]
        ELSE IF fromNode.outEdges[toId] = Undefined /\ toNode.inEdges[fromId] # Undefined
        THEN [nodes |-> [ns EXCEPT ![toId].inEdges[fromId] = Undefined], ret |-> Undefined]
        ELSE IF toNode.inEdges[fromId] = Undefined /\ fromNode.outEdges[toId] # Undefined
        THEN [nodes |-> [ns EXCEPT ![fromId].outEdges[toId] = Undefined], ret |-> Undefined]
        ELSE [nodes |-> ns, ret |-> fromNode.outEdges[toId]]

\* getEdge(fromId, toId) on the node map ns: the node map it leaves and
\* the value it returns.
getEdge(ns, fromId, toId) ==
    LET fromNode == ns[fromId]
        toNode == ns[toId]
        dropIn == [ns EXCEPT ![toId].inEdges[fromId] = Undefined]
        dropOut == [ns EXCEPT ![fromId].outEdges[toId] = Undefined]
    IN  IF fromNode = Undefined /\ toNode = Undefined
        THEN [nodes |-> ns, ret |-> Undefined]
        ELSE IF fromNode = Undefined
        THEN IF toNode.inEdges[fromId] # Undefined
             THEN [nodes |-> dropIn, ret |-> Undefined]
             ELSE [nodes |-> ns, ret |-> Undefined]
        ELSE IF toNode = Undefined
        THEN IF fromNode.outEdges[toId] # Undefined
             THEN [nodes |-> dropOut, ret |-> Undefined]
             ELSE [nodes |-> ns, ret |-> Undefined]
        ELSE IF fromNode.outEdges[toId] = Undefined /\ toNode.inEdges[fromId] # Undefined
        THEN [nodes |-> dropIn, ret |-> Undefined]
        ELSE IF toNode.inEdges[fromId] = Undefined /\ fromNode.outEdges[toId] # Undefined
        THEN [nodes |-> dropOut, ret |-> Undefined]
        ELSE [nodes |-> ns, ret |-> fromNode.outEdges[toId]]

\* addNode that overwrites a node that is already there (mutant of AddNode).
AddNodeOverwriting(id) ==
    /\ call' = [op |-> "addNode", args |-> <<id>>]
    /\ nodeSize' = nodeSize + 1
    /\ nodes' = [nodes EXCEPT ![id] = NewNode(id)]
    /\ ret' = NewNode(id)
    /\ UNCHANGED <<edgeSize, nextOid>>

\* addNode(id)
AddNode(id) ==
    /\ call' = [op |-> "addNode", args |-> <<id>>]
    /\ IF nodes[id] = Undefined
       THEN /\ nodeSize' = nodeSize + 1
            /\ nodes' = [nodes EXCEPT ![id] = NewNode(id)]
            /\ ret' = NewNode(id)
       ELSE /\ ret' = Undefined
            /\ UNCHANGED <<nodes, nodeSize>>
    /\ UNCHANGED <<edgeSize, nextOid>>

\* getNode(id) on the node map ns: a plain property read.
getNode(ns, id) == ns[id]

\* getNode(id) called by the user.
GetNode(id) ==
    /\ call' = [op |-> "getNode", args |-> <<id>>]
    /\ ret' = getNode(nodes, id)
    /\ UNCHANGED <<nodes, nodeSize, edgeSize, nextOid>>

\* removeNode that counts the node down before it looks whether the node
\* is there (mutant of RemoveNode).
RemoveNodeCountingFirst(id) ==
    /\ call' = [op |-> "removeNode", args |-> <<id>>]
    /\ nodeSize' = nodeSize - 1
    /\ IF nodes[id] = Undefined
       THEN /\ ret' = Undefined
            /\ UNCHANGED <<nodes, edgeSize>>
       ELSE /\ edgeSize' = edgeSize - nodes[id].edgeCount
            /\ nodes' = [nodes EXCEPT ![id] = Undefined]
            /\ ret' = nodes[id]
    /\ UNCHANGED nextOid

\* removeNode that also deletes the entries its neighbours hold for the
\* removed id (mutant of RemoveNode).
RemoveNodeScrubbing(id) ==
    /\ call' = [op |-> "removeNode", args |-> <<id>>]
    /\ IF nodes[id] = Undefined
       THEN /\ ret' = Undefined
            /\ UNCHANGED <<nodes, nodeSize, edgeSize>>
       ELSE /\ edgeSize' = edgeSize - nodes[id].edgeCount
            /\ nodeSize' = nodeSize - 1
            /\ nodes' = [n \in Ids |->
                            IF n = id \/ nodes[n] = Undefined
                            THEN Undefined
                            ELSE [nodes[n] EXCEPT !.outEdges[id] = Undefined,
                                                  !.inEdges[id] = Undefined]]
            /\ ret' = nodes[id]
    /\ UNCHANGED nextOid

\* removeNode(id)
RemoveNode(id) ==
    /\ call' = [op |-> "removeNode", args |-> <<id>>]
    /\ IF nodes[id] = Undefined
       THEN /\ ret' = Undefined
            /\ UNCHANGED <<nodes, nodeSize, edgeSize>>
       ELSE /\ edgeSize' = edgeSize - nodes[id].edgeCount
            /\ nodeSize' = nodeSize - 1
            /\ nodes' = [nodes EXCEPT ![id] = Undefined]
            /\ ret' = nodes[id]
    /\ UNCHANGED nextOid

\* addEdge that counts the edge against toNode even when toNode is
\* fromNode (mutant of AddEdge).
AddEdgeCountingBothEnds(args) ==
    LET fromId == args[1]
        toId == args[2]
        g == getEdge(nodes, fromId, toId)
        edgeToAdd == NewEdge(fromId, toId, WeightOf(args), nextOid)
        stored == [g.nodes EXCEPT ![fromId].outEdges[toId] = edgeToAdd,
                                  ![toId].inEdges[fromId] = edgeToAdd]
        counted == [stored EXCEPT ![fromId].edgeCount = @ + 1]
    IN  /\ call' = [op |-> "addEdge", args |-> args]
        /\ IF g.ret # Undefined \/ g.nodes[fromId] = Undefined \/ g.nodes[toId] = Undefined
           THEN /\ ret' = Undefined
                /\ nodes' = g.nodes
                /\ UNCHANGED <<edgeSize, nextOid>>
           ELSE /\ nextOid <= MaxEdgeObjects
                /\ nextOid' = nextOid + 1
                /\ edgeSize' = edgeSize + 1
                /\ nodes' = [counted EXCEPT ![toId].edgeCount = @ + 1]
                /\ ret' = edgeToAdd
        /\ UNCHANGED nodeSize

\* addEdge that does not ask getEdge first and so replaces an edge that is
\* already there (mutant of AddEdge).
AddEdgeReplacing(args) ==
    LET fromId == args[1]
        toId == args[2]
        edgeToAdd == NewEdge(fromId, toId, WeightOf(args), nextOid)
        stored == [nodes EXCEPT ![fromId].outEdges[toId] = edgeToAdd,
                                ![toId].inEdges[fromId] = edgeToAdd]
        counted == [stored EXCEPT ![fromId].edgeCount = @ + 1]
    IN  /\ call' = [op |-> "addEdge", args |-> args]
        /\ IF nodes[fromId] = Undefined \/ nodes[toId] = Undefined
           THEN /\ ret' = Undefined
                /\ UNCHANGED <<nodes, edgeSize, nextOid>>
           ELSE /\ nextOid <= MaxEdgeObjects
                /\ nextOid' = nextOid + 1
                /\ edgeSize' = edgeSize + 1
                /\ nodes' = IF fromId # toId
                            THEN [counted EXCEPT ![toId].edgeCount = @ + 1]
                            ELSE counted
                /\ ret' = edgeToAdd
        /\ UNCHANGED nodeSize

\* addEdge that stores the edge for both directions (mutant of AddEdge).
AddEdgeUndirected(args) ==
    LET fromId == args[1]
        toId == args[2]
        g == getEdge(nodes, fromId, toId)
        edgeToAdd == NewEdge(fromId, toId, WeightOf(args), nextOid)
        stored == [g.nodes EXCEPT ![fromId].outEdges[toId] = edgeToAdd,
                                  ![toId].inEdges[fromId] = edgeToAdd]
        mirrored == [stored EXCEPT ![toId].outEdges[fromId] = edgeToAdd,
                                   ![fromId].inEdges[toId] = edgeToAdd]
        counted == [mirrored EXCEPT ![fromId].edgeCount = @ + 1]
    IN  /\ call' = [op |-> "addEdge", args |-> args]
        /\ IF g.ret # Undefined \/ g.nodes[fromId] = Undefined \/ g.nodes[toId] = Undefined
           THEN /\ ret' = Undefined
                /\ nodes' = g.nodes
                /\ UNCHANGED <<edgeSize, nextOid>>
           ELSE /\ nextOid <= MaxEdgeObjects
                /\ nextOid' = nextOid + 1
                /\ edgeSize' = edgeSize + 1
                /\ nodes' = IF fromId # toId
                            THEN [counted EXCEPT ![toId].edgeCount = @ + 1]
                            ELSE counted
                /\ ret' = edgeToAdd
        /\ UNCHANGED nodeSize

\* addEdge that reads the two map entries themselves instead of calling
\* getEdge, so that whatever entry is there counts as an existing edge
\* (mutant of AddEdge).
AddEdgeTrustingMaps(args) ==
    LET fromId == args[1]
        toId == args[2]
        fromNode == nodes[fromId]
        toNode == nodes[toId]
        edgeToAdd == NewEdge(fromId, toId, WeightOf(args), nextOid)
        stored == [nodes EXCEPT ![fromId].outEdges[toId] = edgeToAdd,
                                ![toId].inEdges[fromId] = edgeToAdd]
        counted == [stored EXCEPT ![fromId].edgeCount = @ + 1]
    IN  /\ call' = [op |-> "addEdge", args |-> args]
        /\ IF fromNode = Undefined \/ toNode = Undefined
           THEN /\ ret' = Undefined
                /\ UNCHANGED <<nodes, edgeSize, nextOid>>
           ELSE IF fromNode.outEdges[toId] # Undefined \/ toNode.inEdges[fromId] # Undefined
           THEN /\ ret' = Undefined
                /\ UNCHANGED <<nodes, edgeSize, nextOid>>
           ELSE /\ nextOid <= MaxEdgeObjects
                /\ nextOid' = nextOid + 1
                /\ edgeSize' = edgeSize + 1
                /\ nodes' = IF fromId # toId
                            THEN [counted EXCEPT ![toId].edgeCount = @ + 1]
                            ELSE counted
                /\ ret' = edgeToAdd
        /\ UNCHANGED nodeSize

\* addEdge(fromId, toId, weight): args is <<fromId, toId>> or
\* <<fromId, toId, weight>>.  The edge object it creates is object nextOid.
AddEdge(args) ==
    LET fromId == args[1]
        toId == args[2]
        weight == WeightOf(args)
        g == getEdge(nodes, fromId, toId)
        fromNode == g.nodes[fromId]
        toNode == g.nodes[toId]
        edgeToAdd == NewEdge(fromId, toId, weight, nextOid)
        stored == [g.nodes EXCEPT ![fromId].outEdges[toId] = edgeToAdd,
                                  ![toId].inEdges[fromId] = edgeToAdd]
        counted == [stored EXCEPT ![fromId].edgeCount = @ + 1]
    IN  /\ call' = [op |-> "addEdge", args |-> args]
        /\ IF g.ret # Undefined
           THEN /\ ret' = Undefined
                /\ nodes' = g.nodes
                /\ UNCHANGED <<edgeSize, nextOid>>
           ELSE IF fromNode = Undefined \/ toNode = Undefined
           THEN /\ ret' = Undefined
                /\ nodes' = g.nodes
                /\ UNCHANGED <<edgeSize, nextOid>>
           ELSE /\ nextOid <= MaxEdgeObjects
                /\ nextOid' = nextOid + 1
                /\ edgeSize' = edgeSize + 1
                /\ nodes' = IF fromId # toId
                            THEN [counted EXCEPT ![toId].edgeCount = @ + 1]
                            ELSE counted
                /\ ret' = edgeToAdd
        /\ UNCHANGED nodeSize

\* getEdge settling edgeSize again when it deletes a leftover entry (mutant
\* of GetEdge).
GetEdgeSettlingAgain(fromId, toId) ==
    LET g == getEdge(nodes, fromId, toId)
    IN  /\ call' = [op |-> "getEdge", args |-> <<fromId, toId>>]
        /\ nodes' = g.nodes
        /\ ret' = g.ret
        /\ edgeSize' = IF g.nodes # nodes THEN edgeSize - 1 ELSE edgeSize
        /\ UNCHANGED <<nodeSize, nextOid>>

\* getEdge(fromId, toId) called by the user.
GetEdge(fromId, toId) ==
    LET g == getEdge(nodes, fromId, toId)
    IN  /\ call' = [op |-> "getEdge", args |-> <<fromId, toId>>]
        /\ nodes' = g.nodes
        /\ ret' = g.ret
        /\ UNCHANGED <<nodeSize, edgeSize, nextOid>>

\* removeEdge that deletes the out-map entry only (mutant of RemoveEdge).
RemoveEdgeOutSideOnly(fromId, toId) ==
    LET g == getEdge(nodes, fromId, toId)
    IN  /\ call' = [op |-> "removeEdge", args |-> <<fromId, toId>>]
        /\ IF g.ret = Undefined
           THEN /\ ret' = Undefined
                /\ nodes' = g.nodes
                /\ UNCHANGED edgeSize
           ELSE /\ nodes' = [g.nodes EXCEPT ![fromId].outEdges[toId] = Undefined]
                /\ edgeSize' = edgeSize - 1
                /\ ret' = g.ret
        /\ UNCHANGED <<nodeSize, nextOid>>

\* removeEdge(fromId, toId)
RemoveEdge(fromId, toId) ==
    LET g == getEdge(nodes, fromId, toId)
        edgeToDelete == g.ret
    IN  /\ call' = [op |-> "removeEdge", args |-> <<fromId, toId>>]
        /\ IF edgeToDelete = Undefined
           THEN /\ ret' = Undefined
                /\ nodes' = g.nodes
                /\ UNCHANGED edgeSize
           ELSE /\ nodes' = [g.nodes EXCEPT ![fromId].outEdges[toId] = Undefined,
                                            ![toId].inEdges[fromId] = Undefined]
                /\ edgeSize' = edgeSize - 1
                /\ ret' = edgeToDelete
        /\ UNCHANGED <<nodeSize, nextOid>>

\* The loop of getInEdgesOf collecting the raw in-map entries, with no
\* getEdge call to validate them (mutant of inEdgesLoop).
RECURSIVE inEdgesLoopRaw(_, _, _, _)
inEdgesLoopRaw(ns, nodeId, keys, inEdges) ==
    IF keys = <<>>
    THEN [nodes |-> ns, ret |-> inEdges]
    ELSE inEdgesLoopRaw(ns, nodeId, Tail(keys),
                        Append(inEdges, ns[nodeId].inEdges[Head(keys)]))

\* The for-in loop of getInEdgesOf over the keys in the order `keys`:
\* a key deleted before the loop reaches it is not visited.
RECURSIVE inEdgesLoop(_, _, _, _)
inEdgesLoop(ns, nodeId, keys, inEdges) ==
    IF keys = <<>>
    THEN [nodes |-> ns, ret |-> inEdges]
    ELSE IF ns[nodeId].inEdges[Head(keys)] = Undefined
    THEN inEdgesLoop(ns, nodeId, Tail(keys), inEdges)
    ELSE LET g == getEdge(ns, Head(keys), nodeId)
         IN  inEdgesLoop(g.nodes, nodeId, Tail(keys),
                         IF g.ret # Undefined THEN Append(inEdges, g.ret) ELSE inEdges)

\* getInEdgesOf(nodeId), for-in enumerating toNode._inEdges in the order keys.
getInEdgesOf(ns, nodeId, keys) ==
    IF ns[nodeId] = Undefined
    THEN [nodes |-> ns, ret |-> <<>>]
    ELSE inEdgesLoop(ns, nodeId, keys, <<>>)

\* The for-in loop of getOutEdgesOf.
RECURSIVE outEdgesLoop(_, _, _, _)
outEdgesLoop(ns, nodeId, keys, outEdges) ==
    IF keys = <<>>
    THEN [nodes |-> ns, ret |-> outEdges]
    ELSE IF ns[nodeId].outEdges[Head(keys)] = Undefined
    THEN outEdgesLoop(ns, nodeId, Tail(keys), outEdges)
    ELSE LET g == getEdge(ns, nodeId, Head(keys))
         IN  outEdgesLoop(g.nodes, nodeId, Tail(keys),
                          IF g.ret # Undefined THEN Append(outEdges, g.ret) ELSE outEdges)

\* getOutEdgesOf(nodeId), for-in enumerating fromNode._outEdges in the order keys.
getOutEdgesOf(ns, nodeId, keys) ==
    IF ns[nodeId] = Undefined
    THEN [nodes |-> ns, ret |-> <<>>]
    ELSE outEdgesLoop(ns, nodeId, keys, <<>>)

\* The key orders for-in may use on the in-map (out-map) of node id in ns.
InOrders(ns, id) == IF ns[id] = Undefined THEN {<<>>} ELSE Orders(Keys(ns[id].inEdges))
OutOrders(ns, id) == IF ns[id] = Undefined THEN {<<>>} ELSE Orders(Keys(ns[id].outEdges))

\* getInEdgesOf(nodeId) called by the user.
GetInEdgesOf(nodeId) ==
    \E keys \in InOrders(nodes, nodeId) :
        LET r == getInEdgesOf(nodes, nodeId, keys)
        IN  /\ call' = [op |-> "getInEdgesOf", args |-> <<nodeId>>]
            /\ nodes' = r.nodes
            /\ ret' = r.ret
            /\ UNCHANGED <<nodeSize, edgeSize, nextOid>>

\* getOutEdgesOf(nodeId) called by the user.
GetOutEdgesOf(nodeId) ==
    \E keys \in OutOrders(nodes, nodeId) :
        LET r == getOutEdgesOf(nodes, nodeId, keys)
        IN  /\ call' = [op |-> "getOutEdgesOf", args |-> <<nodeId>>]
            /\ nodes' = r.nodes
            /\ ret' = r.ret
            /\ UNCHANGED <<nodeSize, edgeSize, nextOid>>

\* The self-edge loop popping the last element without swapping the hit
\* there first (mutant of dropSelfEdge).
RECURSIVE dropSelfEdgePopOnly(_, _, _)
dropSelfEdgePopOnly(inEdges, selfEdge, i) ==
    IF i > Len(inEdges)
    THEN inEdges
    ELSE IF inEdges[i] = selfEdge
    THEN SubSeq(inEdges, 1, Len(inEdges) - 1)
    ELSE dropSelfEdgePopOnly(inEdges, selfEdge, i + 1)

\* The loop of getAllEdgesOf that looks for selfEdge in inEdges from index i
\* (1-based here): at the first hit it swaps the hit with the last element,
\* pops, and stops.
RECURSIVE dropSelfEdge(_, _, _)
dropSelfEdge(inEdges, selfEdge, i) ==
    IF i > Len(inEdges)
    THEN inEdges
    ELSE IF inEdges[i] = selfEdge
    THEN LET swapped == [inEdges EXCEPT ![i] = inEdges[Len(inEdges)],
                                        ![Len(inEdges)] = inEdges[i]]
         IN  SubSeq(swapped, 1, Len(swapped) - 1)
    ELSE dropSelfEdge(inEdges, selfEdge, i + 1)

\* getAllEdgesOf(nodeId), its two for-in loops enumerating in the orders
\* inKeys and outKeys.
getAllEdgesOf(ns, nodeId, inKeys, outKeys) ==
    LET ins == getInEdgesOf(ns, nodeId, inKeys)
        outs == getOutEdgesOf(ins.nodes, nodeId, outKeys)
        self == getEdge(outs.nodes, nodeId, nodeId)
    IN  IF Len(ins.ret) = 0
        THEN [nodes |-> outs.nodes, ret |-> outs.ret]
        ELSE IF self.ret # Undefined
        THEN [nodes |-> self.nodes, ret |-> dropSelfEdge(ins.ret, self.ret, 1) \o outs.ret]
        ELSE [nodes |-> self.nodes, ret |-> ins.ret \o outs.ret]

\* getAllEdgesOf(nodeId) called by the user.  The out-map keys are those
\* left when the first loop is over.
GetAllEdgesOf(nodeId) ==
    \E inKeys \in InOrders(nodes, nodeId) :
        \E outKeys \in OutOrders(getInEdgesOf(nodes, nodeId, inKeys).nodes, nodeId) :
            LET r == getAllEdgesOf(nodes, nodeId, inKeys, outKeys)
            IN  /\ call' = [op |-> "getAllEdgesOf", args |-> <<nodeId>>]
                /\ nodes' = r.nodes
                /\ ret' = r.ret
                /\ UNCHANGED <<nodeSize, edgeSize, nextOid>>

\* forEachNode(operation): the node objects handed to operation, for-in
\* enumerating this._nodes in the order nodeOrder.
forEachNode(ns, nodeOrder) == [i \in 1..Len(nodeOrder) |-> ns[nodeOrder[i]]]

\* forEachNode(operation) called by the user; operation only looks at the
\* nodes.  The call returns nothing; call.visited is what operation was given.
ForEachNode ==
    \E nodeOrder \in Orders(Keys(nodes)) :
        /\ call' = [op |-> "forEachNode", args |-> <<>>,
                    visited |-> forEachNode(nodes, nodeOrder)]
        /\ ret' = Undefined
        /\ UNCHANGED <<nodes, nodeSize, edgeSize, nextOid>>

\* The key orders the inner for-in of forEachEdge may use: one order of the
\* out-map keys for every node, the empty one where there is no node.
OutKeyOrders(ns) ==
    {ko \in [Ids -> UNION {Orders(S) : S \in SUBSET Ids}] :
        \A n \in Ids : ko[n] \in OutOrders(ns, n)}

\* forEachEdge(operation): the edge objects handed to operation, the outer
\* for-in enumerating this._nodes in the order nodeOrder and the inner one
\* the out-map of node n in the order keyOrders[n].  The entries are taken
\* as they are found.
RECURSIVE forEachEdge(_, _, _)
forEachEdge(ns, nodeOrder, keyOrders) ==
    IF nodeOrder = <<>>
    THEN <<>>
    ELSE LET nodeId == Head(nodeOrder)
             toIds == keyOrders[nodeId]
         IN  [i \in 1..Len(toIds) |-> ns[nodeId].outEdges[toIds[i]]]
                 \o forEachEdge(ns, Tail(nodeOrder), keyOrders)

\* forEachEdge(operation) called by the user; operation only looks at the
\* edges.  The call returns nothing; call.visited is what operation was given.
ForEachEdge ==
    \E nodeOrder \in Orders(Keys(nodes)) :
        \E keyOrders \in OutKeyOrders(nodes) :
            /\ call' = [op |-> "forEachEdge", args |-> <<>>,
                        visited |-> forEachEdge(nodes, nodeOrder, keyOrders)]
            /\ ret' = Undefined
            /\ UNCHANGED <<nodes, nodeSize, edgeSize, nextOid>>

\* The argument lists of addEdge: weight omitted, or GivenWeight.
AddEdgeArgs ==
    {<<f, t>> : f \in Ids, t \in Ids} \cup {<<f, t, GivenWeight>> : f \in Ids, t \in Ids}

Next ==
    \/ \E id \in Ids : AddNode(id)
    \/ \E id \in Ids : GetNode(id)
    \/ \E id \in Ids : RemoveNode(id)
    \/ \E args \in AddEdgeArgs : AddEdge(args)
    \/ \E f \in Ids, t \in Ids : GetEdge(f, t)
    \/ \E f \in Ids, t \in Ids : RemoveEdge(f, t)
    \/ \E id \in Ids : GetInEdgesOf(id)
    \/ \E id \in Ids : GetOutEdgesOf(id)
    \/ \E id \in Ids : GetAllEdgesOf(id)
    \/ ForEachNode
    \/ ForEachEdge

Spec == Init /\ [][Next]_vars

(***************************************************************************)
(* Vocabulary of the properties.                                           *)
(***************************************************************************)

\* The ids of the live nodes of the node map ns.
Live(ns) == {id \in Ids : ns[id] # Undefined}

\* The valid edges of ns: the pairs (a, b) of live nodes whose out-map entry
\* a.outEdges[b] and in-map entry b.inEdges[a] are both there and are the
\* same edge object.
ValidEdges(ns) ==
    {p \in Ids \X Ids :
        /\ ns[p[1]] # Undefined
        /\ ns[p[2]] # Undefined
        /\ ns[p[1]].outEdges[p[2]] # Undefined
        /\ ns[p[2]].inEdges[p[1]] # Undefined
        /\ ns[p[1]].outEdges[p[2]] = ns[p[2]].inEdges[p[1]]}

\* The valid edges that touch id, a self-loop once.
IncidentEdges(ns, id) == {p \in ValidEdges(ns) : p[1] = id \/ p[2] = id}

\* An entry of a live node's map that is not one side of a valid edge.
Ghosts(ns) ==
    {p \in Ids \X Ids :
        /\ p \notin ValidEdges(ns)
        /\ \/ ns[p[1]] # Undefined /\ ns[p[1]].outEdges[p[2]] # Undefined
           \/ ns[p[2]] # Undefined /\ ns[p[2]].inEdges[p[1]] # Undefined}

(***************************************************************************)
(* C1: edgeSize is the number of valid edges, after any sequence of calls. *)
(* The code breaks it: _edgeCount is never decremented when an edge of the *)
(* node goes away, so removeNode subtracts edges that are already gone.    *)
(***************************************************************************)
C1_EdgeSizeIsValidEdgeCount == edgeSize = Cardinality(ValidEdges(nodes))

(***************************************************************************)
(* C2: removeNode(id) on a live node returns that node, takes 1 off        *)
(* nodeSize and takes off edgeSize exactly the number of valid edges       *)
(* incident to id (a self-loop once).  The code takes off the node's       *)
(* cached _edgeCount instead, which also counts edges removed earlier.     *)
(***************************************************************************)
C2_RemoveNodeDropsIncidentEdges ==
    [][\A id \in Ids :
        (RemoveNode(id) /\ nodes[id] # Undefined) =>
            /\ ret' = nodes[id]
            /\ nodeSize' = nodeSize - 1
            /\ edgeSize' = edgeSize - Cardinality(IncidentEdges(nodes, id))]_vars

(***************************************************************************)
(* C3: once removeNode(id) has succeeded, getEdge(id, n) and getEdge(n, id)*)
(* are absent for every n, and a pair whose getEdge is absent only gets a  *)
(* present getEdge through a successful addEdge of that exact pair, which  *)
(* returns a newly created edge object; in particular addNode(id) brings   *)
(* no edge back.                                                           *)
(***************************************************************************)
C3_RemovedEdgesStayAbsent ==
    [][/\ \A id \in Ids :
            (RemoveNode(id) /\ nodes[id] # Undefined) =>
                \A n \in Ids :
                    /\ getEdge(nodes', id, n).ret = Undefined
                    /\ getEdge(nodes', n, id).ret = Undefined
       /\ \A a \in Ids, b \in Ids :
            (getEdge(nodes, a, b).ret = Undefined /\ getEdge(nodes', a, b).ret # Undefined) =>
                /\ call'.op = "addEdge"
                /\ call'.args[1] = a
                /\ call'.args[2] = b
                /\ ret' = getEdge(nodes', a, b).ret
                /\ ret'.oid = nextOid
                /\ nextOid' = nextOid + 1]_vars

\* C3's case: id has just been re-added while a neighbour still holds the
\* entry of an edge to or from the removed node of that id.
C3_Witness ==
    /\ call.op = "addNode"
    /\ ret # Undefined
    /\ \E n \in Ids : <<n, call.args[1]>> \in Ghosts(nodes) \/ <<call.args[1], n>> \in Ghosts(nodes)

(***************************************************************************)
(* C4: nodeSize is the number of entries of the node map, the ids for      *)
(* which getNode returns a node.                                           *)
(***************************************************************************)
C4_NodeSizeIsNodeCount ==
    nodeSize = Cardinality({id \in Ids : getNode(nodes, id) # Undefined})

\* C4's case: a node has been removed while another one stays.
C4_Witness ==
    /\ call.op = "removeNode"
    /\ ret # Undefined
    /\ nodeSize = 1

(***************************************************************************)
(* C5: addNode(id) on an absent id returns a node with empty in/out maps   *)
(* and edgeCount 0, adds 1 to nodeSize, and getNode(id) is then that node; *)
(* on a live id it returns absent and leaves nodeSize, edgeSize and the    *)
(* existing node as they were.                                             *)
(***************************************************************************)
C5_AddNodeContract ==
    [][\A id \in Ids :
        AddNode(id) =>
            IF nodes[id] = Undefined
            THEN /\ ret' # Undefined
                 /\ Keys(ret'.outEdges) = {}
                 /\ Keys(ret'.inEdges) = {}
                 /\ ret'.edgeCount = 0
                 /\ nodeSize' = nodeSize + 1
                 /\ getNode(nodes', id) = ret'
            ELSE /\ ret' = Undefined
                 /\ nodeSize' = nodeSize
                 /\ edgeSize' = edgeSize
                 /\ getNode(nodes', id) = nodes[id]]_vars

\* C5's case: addNode was refused on a live node that has edges.
C5_Witness ==
    /\ call.op = "addNode"
    /\ ret = Undefined
    /\ nodes[call.args[1]].edgeCount > 0
    /\ Keys(nodes[call.args[1]].outEdges) # {}

(***************************************************************************)
(* C6: addEdge(from, to, w) between two live nodes with no valid edge      *)
(* from->to returns a new edge object of weight w (1 when w is omitted),   *)
(* stores it at from.outEdges[to] and at to.inEdges[from], adds 1 to       *)
(* edgeSize and to from.edgeCount, and adds 1 to to.edgeCount unless to is *)
(* from.                                                                   *)
(***************************************************************************)
C6_AddEdgeSuccess ==
    [][\A args \in AddEdgeArgs :
        LET f == args[1]
            t == args[2]
        IN  (/\ AddEdge(args)
             /\ nodes[f] # Undefined
             /\ nodes[t] # Undefined
             /\ <<f, t>> \notin ValidEdges(nodes)) =>
                /\ ret' # Undefined
                /\ ret'.weight = (IF Len(args) = 3 THEN args[3] ELSE 1)
                /\ \A n \in Live(nodes), k \in Ids :
                        nodes[n].outEdges[k] # ret' /\ nodes[n].inEdges[k] # ret'
                /\ nodes'[f].outEdges[t] = ret'
                /\ nodes'[t].inEdges[f] = ret'
                /\ edgeSize' = edgeSize + 1
                /\ nodes'[f].edgeCount = nodes[f].edgeCount + 1
                /\ f # t => nodes'[t].edgeCount = nodes[t].edgeCount + 1]_vars

\* C6's case: a self-loop has been added with an explicit weight.
C6_Witness ==
    /\ call.op = "addEdge"
    /\ ret # Undefined
    /\ Len(call.args) = 3
    /\ call.args[1] = call.args[2]
    /\ nodes[call.args[1]].outEdges[call.args[1]] = ret

(***************************************************************************)
(* C7: addEdge(from, to) returns absent and creates no edge when a valid   *)
(* edge from->to exists or when from or to is not live; nodeSize, edgeSize *)
(* and every node's edgeCount stay as they were and the existing edge      *)
(* from->to, weight included, is not replaced.                             *)
(***************************************************************************)
C7_AddEdgeRejected ==
    [][\A args \in AddEdgeArgs :
        LET f == args[1]
            t == args[2]
        IN  (/\ AddEdge(args)
             /\ \/ <<f, t>> \in ValidEdges(nodes)
                \/ nodes[f] = Undefined
                \/ nodes[t] = Undefined) =>
                /\ ret' = Undefined
                /\ nextOid' = nextOid
                /\ ValidEdges(nodes') = ValidEdges(nodes)
                /\ nodeSize' = nodeSize
                /\ edgeSize' = edgeSize
                /\ Live(nodes') = Live(nodes)
                /\ \A n \in Live(nodes) : nodes'[n].edgeCount = nodes[n].edgeCount
                /\ getEdge(nodes', f, t).ret = getEdge(nodes, f, t).ret]_vars

\* C7's case: addEdge with an explicit weight was refused on a pair whose
\* valid edge has the default weight.
C7_Witness ==
    /\ call.op = "addEdge"
    /\ ret = Undefined
    /\ Len(call.args) = 3
    /\ <<call.args[1], call.args[2]>> \in ValidEdges(nodes)
    /\ nodes[call.args[1]].outEdges[call.args[2]].weight = 1

(***************************************************************************)
(* C8: edges are directed.  For A # B a successful addEdge(A, B) makes     *)
(* getEdge(A, B) return the new edge and no addEdge(A, B) call changes     *)
(* what getEdge(B, A) returns; getEdge(B, A) only turns from absent to     *)
(* present by an addEdge(B, A), and what it returns is an edge from B to A.*)
(***************************************************************************)
C8_Directed ==
    [][/\ \A args \in AddEdgeArgs :
            LET a == args[1]
                b == args[2]
            IN  (AddEdge(args) /\ a # b) =>
                    /\ ret' # Undefined => getEdge(nodes', a, b).ret = ret'
                    /\ getEdge(nodes', b, a).ret = getEdge(nodes, b, a).ret
       /\ \A a \in Ids, b \in Ids :
            /\ getEdge(nodes', b, a).ret # Undefined =>
                    /\ getEdge(nodes', b, a).ret.fromId = b
                    /\ getEdge(nodes', b, a).ret.toId = a
            /\ (getEdge(nodes, b, a).ret = Undefined /\ getEdge(nodes', b, a).ret # Undefined) =>
                    /\ call'.op = "addEdge"
                    /\ call'.args[1] = b
                    /\ call'.args[2] = a]_vars

\* C8's case: A->B has been added between distinct nodes and B->A is absent.
C8_Witness ==
    /\ call.op = "addEdge"
    /\ ret # Undefined
    /\ call.args[1] # call.args[2]
    /\ getEdge(nodes, call.args[1], call.args[2]).ret = ret
    /\ getEdge(nodes, call.args[2], call.args[1]).ret = Undefined

(***************************************************************************)
(* C9: when getEdge(from, to) would return an edge, removeEdge(from, to)   *)
(* returns it, takes 1 off edgeSize and deletes from.outEdges[to] and      *)
(* to.inEdges[from], so that getEdge(from, to) is absent afterwards;       *)
(* otherwise it returns absent and leaves edgeSize and nodeSize alone.     *)
(***************************************************************************)
C9_RemoveEdgeContract ==
    [][\A f \in Ids, t \in Ids :
        RemoveEdge(f, t) =>
            IF getEdge(nodes, f, t).ret # Undefined
            THEN /\ ret' = getEdge(nodes, f, t).ret
                 /\ edgeSize' = edgeSize - 1
                 /\ nodes'[f].outEdges[t] = Undefined
                 /\ nodes'[t].inEdges[f] = Undefined
                 /\ getEdge(nodes', f, t).ret = Undefined
            ELSE /\ ret' = Undefined
                 /\ edgeSize' = edgeSize
                 /\ nodeSize' = nodeSize]_vars

\* C9's case: A->B has been removed while B->A stays valid.
C9_Witness ==
    /\ call.op = "removeEdge"
    /\ ret # Undefined
    /\ call.args[1] # call.args[2]
    /\ <<call.args[2], call.args[1]>> \in ValidEdges(nodes)

(***************************************************************************)
(* C10: getInEdgesOf(n) returns exactly the valid edges x->n, one for each *)
(* x for which getEdge(x, n) is present, each once and no ghost entry      *)
(* among them; getOutEdgesOf(n) the same for the valid edges n->x; both    *)
(* return the empty sequence when n is not live.                           *)
(***************************************************************************)
C10_InOutEdgesAreTheValidOnes ==
    [][\A n \in Ids :
        /\ GetInEdgesOf(n) =>
            LET from == {x \in Ids : getEdge(nodes, x, n).ret # Undefined}
                valid == {nodes[p[1]].outEdges[n] : p \in {q \in ValidEdges(nodes) : q[2] = n}}
            IN  /\ {ret'[i] : i \in 1..Len(ret')} = valid
                /\ Len(ret') = Cardinality(from)
                /\ from = {p[1] : p \in {q \in ValidEdges(nodes) : q[2] = n}}
                /\ nodes[n] = Undefined => ret' = <<>>
        /\ GetOutEdgesOf(n) =>
            LET to == {x \in Ids : getEdge(nodes, n, x).ret # Undefined}
                valid == {nodes[n].outEdges[p[2]] : p \in {q \in ValidEdges(nodes) : q[1] = n}}
            IN  /\ {ret'[i] : i \in 1..Len(ret')} = valid
                /\ Len(ret') = Cardinality(to)
                /\ to = {p[2] : p \in {q \in ValidEdges(nodes) : q[1] = n}}
                /\ nodes[n] = Undefined => ret' = <<>>]_vars

\* C10's case: getInEdgesOf(n) has returned no edge for a live node n that
\* counts two edges and still holds, in its out-map, the entry of an edge to
\* a node that is no longer live.
C10_Witness ==
    /\ call.op = "getInEdgesOf"
    /\ ret = <<>>
    /\ nodes[call.args[1]] # Undefined
    /\ nodes[call.args[1]].edgeCount = 2
    /\ \E x \in Ids : nodes[x] = Undefined /\ nodes[call.args[1]].outEdges[x] # Undefined

\* The elements of a sequence.
Range(seq) == {seq[i] : i \in 1..Len(seq)}

\* The edge object of the valid edge p.
EdgeAt(ns, p) == ns[p[1]].outEdges[p[2]]

(***************************************************************************)
(* C11: getAllEdgesOf(n) returns every valid edge incident to n exactly    *)
(* once.  Its length is |getInEdgesOf(n)| + |getOutEdgesOf(n)|, minus 1    *)
(* when the self-loop n->n is valid; no edge is dropped or doubled; and    *)
(* for a node whose edges are a self-loop and one other out-edge it has    *)
(* exactly 2 edges.                                                        *)
(***************************************************************************)
C11_AllEdgesOnce ==
    [][\A n \in Ids :
        GetAllEdgesOf(n) =>
            LET incident == IncidentEdges(nodes, n)
                self == IF <<n, n>> \in ValidEdges(nodes) THEN 1 ELSE 0
            IN  /\ Range(ret') = {EdgeAt(nodes, p) : p \in incident}
                /\ Len(ret') = Cardinality(incident)
                /\ \A inKeys \in InOrders(nodes, n), outKeys \in OutOrders(nodes, n) :
                        Len(ret') = Len(getInEdgesOf(nodes, n, inKeys).ret)
                                        + Len(getOutEdgesOf(nodes, n, outKeys).ret) - self
                /\ (self = 1 /\ \E x \in Ids \ {n} : incident = {<<n, n>>, <<n, x>>}) =>
                        Len(ret') = 2]_vars

\* C11's case: getAllEdgesOf(n) has returned the two edges of a node with a
\* valid self-loop and a valid in-edge from another node.
C11_Witness ==
    /\ call.op = "getAllEdgesOf"
    /\ Len(ret) = 2
    /\ <<call.args[1], call.args[1]>> \in ValidEdges(nodes)
    /\ \E x \in Ids \ {call.args[1]} : <<x, call.args[1]>> \in ValidEdges(nodes)

(***************************************************************************)
(* C12: forEachEdge calls the visitor exactly once for each valid edge and *)
(* for nothing else, so the number of visits is edgeSize, also right after *)
(* removeNode calls.  The code hands over the raw out-map entries, those   *)
(* left behind by a removed node included.                                 *)
(***************************************************************************)
C12_ForEachEdgeVisitsValidEdges ==
    call.op = "forEachEdge" =>
        /\ Range(call.visited) = {EdgeAt(nodes, p) : p \in ValidEdges(nodes)}
        /\ Len(call.visited) = Cardinality(ValidEdges(nodes))
        /\ Len(call.visited) = edgeSize

\* The call c is one of getEdge(a, b), getEdge(b, a), getInEdgesOf(b) and
\* getOutEdgesOf(b).
ReadsPair(c, a, b) ==
    \/ c.op = "getEdge" /\ c.args \in {<<a, b>>, <<b, a>>}
    \/ c.op \in {"getInEdgesOf", "getOutEdgesOf"} /\ c.args = <<b>>

\* The result r of such a call shows no edge between a and b.
NoEdgeWith(c, r, a) ==
    IF c.op = "getEdge"
    THEN r = Undefined
    ELSE \A i \in 1..Len(r) : r[i].fromId # a /\ r[i].toId # a

(***************************************************************************)
(* C13 as claimed: with A removed and B live, once one of getEdge(A, B),   *)
(* getEdge(B, A), getInEdgesOf(B), getOutEdgesOf(B) has been called, every *)
(* later one of these calls changes no state at all.  The code deletes a   *)
(* ghost entry when the call that reads its slot comes, also when another  *)
(* call of the list came first: getOutEdgesOf(B) does not read B's in-map, *)
(* so the getEdge(A, B) after it still deletes B.inEdges[A].               *)
(***************************************************************************)
C13_LaterReadsChangeNothing ==
    [][\A a \in Ids, b \in Ids :
        (/\ nodes[a] = Undefined
         /\ nodes[b] # Undefined
         /\ ReadsPair(call, a, b)
         /\ ReadsPair(call', a, b)) =>
            /\ nodes' = nodes
            /\ edgeSize' = edgeSize
            /\ NoEdgeWith(call', ret', a)]_vars

(***************************************************************************)
(* C13 as amended: with A removed and B live, each of getEdge(A, B),       *)
(* getEdge(B, A), getInEdgesOf(B), getOutEdgesOf(B) shows no edge between  *)
(* A and B and leaves edgeSize alone; a call that repeats the call made    *)
(* just before it changes no state at all and gives the same result; and   *)
(* a call that does change state deletes ghost entries and nothing else.   *)
(***************************************************************************)
C13_GhostCleanupIdempotent ==
    [][\A a \in Ids, b \in Ids :
        (/\ nodes[a] = Undefined
         /\ nodes[b] # Undefined
         /\ ReadsPair(call', a, b)) =>
            /\ edgeSize' = edgeSize
            /\ NoEdgeWith(call', ret', a)
            /\ call' = call =>
                    /\ nodes' = nodes
                    /\ IF call.op = "getEdge" THEN ret' = ret ELSE Range(ret') = Range(ret)
            /\ nodes' # nodes =>
                    /\ Ghosts(nodes') \subseteq Ghosts(nodes)
                    /\ Ghosts(nodes') # Ghosts(nodes)
                    /\ ValidEdges(nodes') = ValidEdges(nodes)
                    /\ \A n \in Ids : nodes[n] # Undefined =>
                            /\ nodes'[n] # Undefined
                            /\ nodes'[n].edgeCount = nodes[n].edgeCount]_vars

\* C13's case: getEdge(A, B) has been called after the removal of A, which
\* had an edge with B: B still holds the entry of its edge to A.
C13_Witness ==
    /\ call.op = "getEdge"
    /\ ret = Undefined
    /\ nodes[call.args[1]] = Undefined
    /\ nodes[call.args[2]] # Undefined
    /\ nodes[call.args[2]].outEdges[call.args[1]] # Undefined
    /\ nodes[call.args[2]].inEdges[call.args[1]] = Undefined
    /\ nodes[call.args[2]].edgeCount = 2

(***************************************************************************)
(* Ids that name an inherited property.  this._nodes and the edge maps are *)
(* object literals, and `this._nodes[id]` is a plain property read: for an *)
(* id such as "constructor" it finds the property every object inherits    *)
(* from Object.prototype, although no node was ever stored under that id.  *)
(***************************************************************************)

\* An id that names a property of Object.prototype.
InheritedId == "constructor"

\* The ids of the calls below.
AnyIds == Ids \cup {InheritedId}

\* What a property read finds under InheritedId: an object that is truthy
\* and has no _outEdges, _inEdges or _edgeCount of its own.
InheritedObject == [inherited |-> InheritedId]

\* The TypeError a property read through undefined throws; ret holds it when
\* the call ended by throwing.
TypeError == [thrown |-> "TypeError"]

\* this._nodes[id]
lookup(ns, id) == IF id \in Ids THEN ns[id] ELSE InheritedObject

\* getEdge(fromId, toId) when fromId or toId may be InheritedId.
getEdgeAnyId(ns, fromId, toId) ==
    LET fromNode == lookup(ns, fromId)
        toNode == lookup(ns, toId)
        thrown == [nodes |-> ns, ret |-> TypeError]
    IN  IF fromId \in Ids /\ toId \in Ids
        THEN getEdge(ns, fromId, toId)
        ELSE IF fromNode = Undefined
        \* toNode is the inherited object: toNode._inEdges is undefined and
        \* line 154 reads [fromId] of it.
        THEN thrown
        ELSE IF toNode = Undefined
        \* fromNode is the inherited object: line 158 reads [toId] of
        \* fromNode._outEdges, which is undefined.
        THEN thrown
        ELSE IF fromNode = InheritedObject
        \* line 162 reads [toId] of fromNode._outEdges, which is undefined.
        THEN thrown
        \* fromNode is a node and toNode the inherited object:
        \* fromNode._outEdges[toId] finds the inherited property, line 162
        \* stops at its first operand and line 164 reads [fromId] of
        \* toNode._inEdges, which is undefined.
        ELSE thrown

\* addNode(id): `!this._nodes[id]` is false for InheritedId.
AddNodeAnyId(id) ==
    IF id \in Ids
    THEN AddNode(id)
    ELSE /\ lookup(nodes, id) # Undefined
         /\ call' = [op |-> "addNode", args |-> <<id>>]
         /\ ret' = Undefined
         /\ UNCHANGED <<nodes, nodeSize, edgeSize, nextOid>>

\* getNode(id)
GetNodeAnyId(id) ==
    /\ call' = [op |-> "getNode", args |-> <<id>>]
    /\ ret' = lookup(nodes, id)
    /\ UNCHANGED <<nodes, nodeSize, edgeSize, nextOid>>

\* getEdge(fromId, toId)
GetEdgeAnyId(fromId, toId) ==
    LET g == getEdgeAnyId(nodes, fromId, toId)
    IN  /\ call' = [op |-> "getEdge", args |-> <<fromId, toId>>]
        /\ nodes' = g.nodes
        /\ ret' = g.ret
        /\ UNCHANGED <<nodeSize, edgeSize, nextOid>>

\* addEdge(fromId, toId, weight): the getEdge call of line 118 throws when
\* one of the ids is InheritedId.
AddEdgeAnyId(args) ==
    IF args[1] \in Ids /\ args[2] \in Ids
    THEN AddEdge(args)
    ELSE /\ call' = [op |-> "addEdge", args |-> args]
         /\ nodes' = getEdgeAnyId(nodes, args[1], args[2]).nodes
         /\ ret' = getEdgeAnyId(nodes, args[1], args[2]).ret
         /\ UNCHANGED <<nodeSize, edgeSize, nextOid>>

\* removeEdge(fromId, toId): the getEdge call of line 181 throws when one of
\* the ids is InheritedId.
RemoveEdgeAnyId(fromId, toId) ==
    IF fromId \in Ids /\ toId \in Ids
    THEN RemoveEdge(fromId, toId)
    ELSE /\ call' = [op |-> "removeEdge", args |-> <<fromId, toId>>]
         /\ nodes' = getEdgeAnyId(nodes, fromId, toId).nodes
         /\ ret' = getEdgeAnyId(nodes, fromId, toId).ret
         /\ UNCHANGED <<nodeSize, edgeSize, nextOid>>

\* getInEdgesOf, getOutEdgesOf and getAllEdgesOf (op) of InheritedId: the
\* node found is truthy, for-in over its undefined edge map runs no
\* iteration, and the empty array is returned.
EdgesOfInheritedId(op) ==
    /\ lookup(nodes, InheritedId) # Undefined
    /\ call' = [op |-> op, args |-> <<InheritedId>>]
    /\ ret' = <<>>
    /\ UNCHANGED <<nodes, nodeSize, edgeSize, nextOid>>

\* The argument lists of addEdge with ids of AnyIds.
AddEdgeAnyArgs ==
    {<<f, t>> : f \in AnyIds, t \in AnyIds}
        \cup {<<f, t, GivenWeight>> : f \in AnyIds, t \in AnyIds}

\* The calls of Next, and the same calls with InheritedId for an id.
\* removeNode is called with the ids of Ids only: with InheritedId its
\* `edgeSize -= undefined` makes edgeSize NaN, which is no value of the
\* integers edgeSize is kept in here.
NextAnyId ==
    \/ \E id \in AnyIds : AddNodeAnyId(id)
    \/ \E id \in AnyIds : GetNodeAnyId(id)
    \/ \E id \in Ids : RemoveNode(id)
    \/ \E args \in AddEdgeAnyArgs : AddEdgeAnyId(args)
    \/ \E f \in AnyIds, t \in AnyIds : GetEdgeAnyId(f, t)
    \/ \E f \in AnyIds, t \in AnyIds : RemoveEdgeAnyId(f, t)
    \/ \E id \in Ids : GetInEdgesOf(id)
    \/ \E id \in Ids : GetOutEdgesOf(id)
    \/ \E id \in Ids : GetAllEdgesOf(id)
    \/ \E op \in {"getInEdgesOf", "getOutEdgesOf", "getAllEdgesOf"} : EdgesOfInheritedId(op)
    \/ ForEachNode
    \/ ForEachEdge

SpecAnyId == Init /\ [][NextAnyId]_vars

\* v is a node object with the id `id`.
IsNodeOf(v, id) ==
    /\ DOMAIN v = {"id", "outEdges", "inEdges", "edgeCount"}
    /\ v.id = id

\* v is an edge object from fromId to toId.
IsEdgeOf(v, fromId, toId) ==
    /\ DOMAIN v = {"fromId", "toId", "weight", "oid"}
    /\ v.fromId = fromId
    /\ v.toId = toId

(***************************************************************************)
(* C14: every operation is total.  For any ids, live or not, no call ends  *)
(* by throwing, and a call returns absent, the node of the id, the edge of *)
(* the pair, or a sequence; not found is signalled by absent (getNode of   *)
(* an id with no node, getEdge of a pair with no valid edge) or by the     *)
(* empty sequence (the edges of an id with no node).  The code breaks it   *)
(* for an id that names an inherited property.                             *)
(***************************************************************************)
C14_OperationsAreTotal ==
    /\ call.op \in {"addNode", "getNode", "removeNode"} =>
            /\ ret # TypeError
            /\ ret = Undefined \/ IsNodeOf(ret, call.args[1])
    /\ call.op \in {"addEdge", "getEdge", "removeEdge"} =>
            /\ ret # TypeError
            /\ ret = Undefined \/ IsEdgeOf(ret, call.args[1], call.args[2])
    /\ (/\ call.op = "getNode"
        /\ lookup(nodes, call.args[1]) = Undefined \/ call.args[1] \notin Ids) =>
            ret = Undefined
    /\ (/\ call.op = "getEdge"
        /\ <<call.args[1], call.args[2]>> \notin ValidEdges(nodes)) =>
            ret = Undefined
    /\ call.op \in {"getInEdgesOf", "getOutEdgesOf", "getAllEdgesOf"} =>
            /\ \A i \in 1..Len(ret) : DOMAIN ret[i] = {"fromId", "toId", "weight", "oid"}
            /\ (call.args[1] \notin Ids \/ lookup(nodes, call.args[1]) = Undefined) =>
                    ret = <<>>

\* The map entries of ns other than fromId's out-entry for toId and toId's
\* in-entry for fromId, with the edge counts of the nodes.
OtherEntries(ns, fromId, toId) ==
    [n \in Live(ns) |->
        [outEdges |-> [k \in Ids |->
                        IF n = fromId /\ k = toId THEN Undefined ELSE ns[n].outEdges[k]],
         inEdges |-> [k \in Ids |->
                        IF n = toId /\ k = fromId THEN Undefined ELSE ns[n].inEdges[k]],
         edgeCount |-> ns[n].edgeCount]]

(***************************************************************************)
(* C15: getEdge(from, to) never changes nodeSize, edgeSize, the set of     *)
(* live nodes or a node's edgeCount.  All it may do is delete a ghost      *)
(* entry at to.inEdges[from] or from.outEdges[to]; when neither node is    *)
(* live, or when it returns an edge, it changes nothing.                   *)
(***************************************************************************)
C15_GetEdgeFrame ==
    [][\A f \in Ids, t \in Ids :
        GetEdge(f, t) =>
            /\ nodeSize' = nodeSize
            /\ edgeSize' = edgeSize
            /\ nextOid' = nextOid
            /\ Live(nodes') = Live(nodes)
            /\ OtherEntries(nodes', f, t) = OtherEntries(nodes, f, t)
            /\ nodes' # nodes =>
                    /\ <<f, t>> \in Ghosts(nodes)
                    /\ <<f, t>> \notin Ghosts(nodes')
                    /\ \A n \in Live(nodes) :
                            /\ nodes'[n].outEdges[t] \in {nodes[n].outEdges[t], Undefined}
                            /\ nodes'[n].inEdges[f] \in {nodes[n].inEdges[f], Undefined}
            /\ (nodes[f] = Undefined /\ nodes[t] = Undefined) => nodes' = nodes
            /\ ret' # Undefined => nodes' = nodes]_vars

\* C15's case: getEdge has returned absent for a pair whose source was
\* removed; the target counts two edges and holds no in-entry for the source
\* any more, while its out-entry for the source, a ghost at another slot, is
\* still there.
C15_Witness ==
    /\ call.op = "getEdge"
    /\ ret = Undefined
    /\ nodes[call.args[1]] = Undefined
    /\ nodes[call.args[2]] # Undefined
    /\ nodes[call.args[2]].edgeCount = 2
    /\ nodes[call.args[2]].inEdges[call.args[1]] = Undefined
    /\ <<call.args[2], call.args[1]>> \in Ghosts(nodes)
    /\ edgeSize = 0

(***************************************************************************)
(* C16: for live nodes A and B, when A.outEdges[B] and B.inEdges[A] are    *)
(* both present they are the same edge object, and its fromId is A and its *)
(* toId is B.  An edge that getEdge(A, B) returns has fromId A and toId B, *)
(* and it is either the object this addEdge(A, B) step has just created or *)
(* the edge getEdge(A, B) returned before the step, with both endpoints    *)
(* live before and after: it was created by an addEdge(A, B) and no        *)
(* endpoint has been removed since.                                        *)
(***************************************************************************)
C16_BothSidesAgree ==
    /\ [](\A a \in Live(nodes), b \in Live(nodes) :
            (nodes[a].outEdges[b] # Undefined /\ nodes[b].inEdges[a] # Undefined) =>
                /\ nodes[a].outEdges[b] = nodes[b].inEdges[a]
                /\ nodes[a].outEdges[b].fromId = a
                /\ nodes[a].outEdges[b].toId = b)
    /\ [][\A a \in Ids, b \in Ids :
            LET e == getEdge(nodes', a, b).ret
            IN  e # Undefined =>
                    /\ e.fromId = a
                    /\ e.toId = b
                    /\ \/ /\ call'.op = "addEdge"
                          /\ call'.args[1] = a
                          /\ call'.args[2] = b
                          /\ ret' = e
                          /\ e.oid = nextOid
                          /\ nextOid' = nextOid + 1
                       \/ /\ e = getEdge(nodes, a, b).ret
                          /\ e.oid < nextOid
                          /\ {a, b} \subseteq Live(nodes) \cap Live(nodes')
                          /\ ~(call'.op = "removeNode" /\ call'.args[1] \in {a, b})]_vars

\* C16's case: getEdge has returned the second edge object created, an edge
\* between two distinct live nodes; its target has counted two edges and the
\* earlier one is gone.
C16_Witness ==
    /\ call.op = "getEdge"
    /\ ret # Undefined
    /\ ret.oid = 2
    /\ call.args[1] # call.args[2]
    /\ ret.fromId = call.args[1]
    /\ ret.toId = call.args[2]
    /\ nodes[call.args[1]].edgeCount = 1
    /\ nodes[call.args[2]].edgeCount = 2
    /\ nodes[call.args[2]].outEdges[call.args[1]] = Undefined
    /\ edgeSize = 1

(***************************************************************************)
(* C17: right after getEdge(from, to) returns no ghost is left at the      *)
(* slot: from.outEdges[to] is absent when only from is live,               *)
(* to.inEdges[from] is absent when only to is live, and with both live the *)
(* two entries are both absent or the same edge.  Right after              *)
(* getInEdgesOf(n) every entry of n's in-map is one side of a valid edge,  *)
(* and right after getOutEdgesOf(n) every entry of n's out-map is.         *)
(***************************************************************************)
C17_LookupRepairsSlot ==
    /\ call.op = "getEdge" =>
            LET f == call.args[1]
                t == call.args[2]
            IN  /\ (nodes[f] # Undefined /\ nodes[t] = Undefined) =>
                        nodes[f].outEdges[t] = Undefined
                /\ (nodes[t] # Undefined /\ nodes[f] = Undefined) =>
                        nodes[t].inEdges[f] = Undefined
                /\ (nodes[f] # Undefined /\ nodes[t] # Undefined) =>
                        /\ nodes[f].outEdges[t] = nodes[t].inEdges[f]
                        /\ ret = nodes[f].outEdges[t]
    /\ call.op = "getInEdgesOf" =>
            LET n == call.args[1]
            IN  nodes[n] # Undefined =>
                    \A k \in Keys(nodes[n].inEdges) : <<k, n>> \in ValidEdges(nodes)
    /\ call.op = "getOutEdgesOf" =>
            LET n == call.args[1]
            IN  nodes[n] # Undefined =>
                    \A k \in Keys(nodes[n].outEdges) : <<n, k>> \in ValidEdges(nodes)

\* C17's case: getInEdgesOf(n) has returned the empty sequence for a node
\* that counts two edges and whose neighbour was removed; n's in-map is
\* empty, and its out-map, which the call does not read, still holds the
\* ghost entry for the neighbour.
C17_Witness ==
    /\ call.op = "getInEdgesOf"
    /\ ret = <<>>
    /\ nodes[call.args[1]] # Undefined
    /\ nodes[call.args[1]].edgeCount = 2
    /\ Keys(nodes[call.args[1]].inEdges) = {}
    /\ \E k \in Ids : /\ nodes[k] = Undefined
                      /\ nodes[call.args[1]].outEdges[k] # Undefined
    /\ edgeSize = 0

(***************************************************************************)
(* C18: ghost entries never block a re-add.  When from and to are both     *)
(* live and getEdge(from, to) is absent, addEdge(from, to) returns a new   *)
(* edge object and getEdge(from, to) returns that object afterwards; when  *)
(* a stale entry for the pair was there, left from before one of the two   *)
(* ids was removed and added again, the call has replaced it.              *)
(***************************************************************************)
C18_GhostsNeverBlockReAdd ==
    [][\A args \in AddEdgeArgs :
        LET f == args[1]
            t == args[2]
        IN  (/\ AddEdge(args)
             /\ nodes[f] # Undefined
             /\ nodes[t] # Undefined
             /\ getEdge(nodes, f, t).ret = Undefined) =>
                /\ ret' # Undefined
                /\ ret'.oid = nextOid
                /\ getEdge(nodes', f, t).ret = ret'
                /\ getEdge(nodes', f, t).nodes = nodes'
                /\ <<f, t>> \in Ghosts(nodes) =>
                        /\ <<f, t>> \in ValidEdges(nodes')
                        /\ Ghosts(nodes') = Ghosts(nodes) \ {<<f, t>>}]_vars

\* C18's case: addEdge has returned the second edge object for a pair of
\* distinct live nodes of which the source counts two edges and the target
\* only this one, and no other entry is left in the maps of the two.
C18_Witness ==
    /\ call.op = "addEdge"
    /\ ret # Undefined
    /\ ret.oid = 2
    /\ call.args[1] # call.args[2]
    /\ nodes[call.args[1]].edgeCount = 2
    /\ nodes[call.args[2]].edgeCount = 1
    /\ Keys(nodes[call.args[1]].outEdges) = {call.args[2]}
    /\ Keys(nodes[call.args[1]].inEdges) = {}
    /\ getEdge(nodes, call.args[1], call.args[2]).ret = ret
    /\ edgeSize = 1

(***************************************************************************)
(* C19: removeNode(id) changes only nodeSize, edgeSize and the node-map    *)
(* entry for id.  Every other node keeps its in-map, its out-map and its   *)
(* edgeCount, so an entry another node holds for id stays, as a ghost.     *)
(* removeNode of an absent id changes nothing and returns absent.          *)
(***************************************************************************)
C19_RemoveNodeFrame ==
    [][\A id \in Ids :
        RemoveNode(id) =>
            /\ nextOid' = nextOid
            /\ \A n \in Ids \ {id} : nodes'[n] = nodes[n]
            /\ nodes[id] = Undefined =>
                    /\ ret' = Undefined
                    /\ nodes' = nodes
                    /\ nodeSize' = nodeSize
                    /\ edgeSize' = edgeSize
            /\ nodes[id] # Undefined =>
                    /\ nodes'[id] = Undefined
                    /\ \A n \in Live(nodes) \ {id} :
                            /\ nodes[n].outEdges[id] # Undefined =>
                                    /\ nodes'[n].outEdges[id] = nodes[n].outEdges[id]
                                    /\ <<n, id>> \in Ghosts(nodes')
                            /\ nodes[n].inEdges[id] # Undefined =>
                                    /\ nodes'[n].inEdges[id] = nodes[n].inEdges[id]
                                    /\ <<id, n>> \in Ghosts(nodes')]_vars

\* C19's case: removeNode has removed a node that had an edge to and an edge
\* from a neighbour; the neighbour still counts both and still holds both
\* entries for the removed id.
C19_Witness ==
    /\ call.op = "removeNode"
    /\ ret # Undefined
    /\ nodes[call.args[1]] = Undefined
    /\ ret.edgeCount = 2
    /\ \E n \in Live(nodes) :
            /\ nodes[n].edgeCount = 2
            /\ nodes[n].outEdges[call.args[1]] = ret.inEdges[n]
            /\ nodes[n].inEdges[call.args[1]] = ret.outEdges[n]
            /\ ret.inEdges[n] # Undefined
            /\ ret.outEdges[n] # Undefined

(***************************************************************************)
(* C20: edgeSize and nodeSize are never negative, and edgeSize is 0 when   *)
(* no node is live.  The code breaks it: removeNode subtracts the          *)
(* _edgeCount of the node, which still counts the edges removeEdge has     *)
(* deleted and the edges a removed neighbour took with it.                 *)
(***************************************************************************)
C20_SizesNeverNegative ==
    /\ nodeSize >= 0
    /\ edgeSize >= 0
    /\ Live(nodes) = {} => edgeSize = 0
====
